---- MODULE Spec2Model ----
(***************************************************************************)
(* Model of scripts/get_roads_city.py: OSMCityPipeline and main.           *)
(*                                                                         *)
(* Coordinates are decimal numbers with one fractional digit, held as the  *)
(* integer number of tenths (727 is 72.7).  A point is <<x, y>>.  A shape  *)
(* is [shapeType, points].  A shapefile is [exists, fields, records,       *)
(* shapes]; records[k] and shapes[k] describe the same feature.            *)
(* Python's None is the empty tuple for bbox / url, and NoExc for "no      *)
(* exception".  Python list indices are 0-based: road_type_index holds the *)
(* Python value, the sequence position is road_type_index + 1.             *)
(***************************************************************************)
EXTENDS Integers, Sequences, FiniteSets, TLC

VARIABLES
    args,            \* parsed command line: base_shapefile, cities, city_field, road_types, roads_shapefile
    baseFile,        \* content of the boundary shapefile
    roadFile,        \* content of the road shapefile (exists = FALSE when absent)
    i,               \* position of main's for loop in args.cities
    mainPc,          \* "loop" | "call" | "done"
    pc,              \* position inside process_city
    city_shapes, bbox, bbbike_url,          \* locals of process_city
    road_shapes, road_df,                   \* locals of process_city
    road_type_index, warned,                \* locals / diagnostics of _extract_road_data
    exc,             \* exception in flight (NoExc when none)
    attempted,       \* history: cities for which process_city was called
    trace,           \* history: steps completed by the current process_city run
    written,         \* history: output files written, <<city, kind>>
    results,         \* history: records returned by process_city
    reported         \* history: <<city, exception>> printed by main's except clause

vars == <<args, baseFile, roadFile, i, mainPc, pc, city_shapes, bbox, bbbike_url,
          road_shapes, road_df, road_type_index, warned, exc, attempted, trace,
          written, results, reported>>

----------------------------------------------------------------------------
(* Bounds *)

MaxCities == 2        \* length of --cities
MaxShapes == 2        \* features in the boundary shapefile
MaxPoints == 2        \* points per boundary shape
MaxRoads == 2         \* features in the road shapefile
MaxRoadPoints == 2    \* points per road shape

CityNames == {"A", "B"}
Coords == {-1805, -7, 0, 188, 727}
BoundaryRings == {<<<<-7, 188>>, <<727, -7>>, <<188, 727>>, <<0, 0>>>>,
                  <<<<727, 188>>, <<-7, -7>>, <<730, 193>>, <<-1805, 0>>>>,
                  <<<<188, -7>>, <<188, 727>>, <<0, 188>>, <<727, 727>>>>}
RoadValues == {"primary", "footway"}

----------------------------------------------------------------------------
(* Generic helpers *)

SeqsUpTo(S, n) == UNION {[1..k -> S] : k \in 0..n}

Range(s) == {s[k] : k \in 1..Len(s)}

\* zip(records, sf.shapes())
Zip(records, shapes) ==
    LET n == IF Len(records) < Len(shapes) THEN Len(records) ELSE Len(shapes)
    IN  [k \in 1..n |-> <<records[k], shapes[k]>>]

\* list.index(name): position of the first occurrence, 0 when absent
FirstPos(fields, name) ==
    IF \E k \in 1..Len(fields) : fields[k] = name
    THEN CHOOSE k \in 1..Len(fields) :
            fields[k] = name /\ \A j \in 1..(k - 1) : fields[j] # name
    ELSE 0

RECURSIVE Flatten(_)
Flatten(ss) == IF ss = <<>> THEN <<>> ELSE Head(ss) \o Flatten(Tail(ss))

SetMin(S) == CHOOSE m \in S : \A v \in S : m <= v
SetMax(S) == CHOOSE m \in S : \A v \in S : m >= v

----------------------------------------------------------------------------
(* Exceptions *)

NoExc == [type |-> "none", msg |-> ""]
FieldIndexError == [type |-> "ValueError", msg |-> "is not in list"]
CityNotFoundError == [type |-> "ValueError", msg |-> "City not found in the shapefile using field"]
MinEmptyError == [type |-> "ValueError", msg |-> "min() arg is an empty sequence"]
UnpackError == [type |-> "ValueError", msg |-> "not enough values to unpack (expected 2, got 0)"]
ListIndexError == [type |-> "IndexError", msg |-> "list index out of range"]

----------------------------------------------------------------------------
(* _extract_city_boundaries *)

\* variant: the comprehension without its filter
CityShapesUnfiltered(sf, name_pos, city_name) ==
    [k \in 1..Len(Zip(sf.records, sf.shapes)) |-> Zip(sf.records, sf.shapes)[k][2]]

\* city_shapes = [shape for record, shape in zip(...) if record[name_index] == city_name]
CityShapes(sf, name_pos, city_name) ==
    LET matched == SelectSeq(Zip(sf.records, sf.shapes),
                             LAMBDA p : p[1][name_pos] = city_name)
    IN  [k \in 1..Len(matched) |-> matched[k][2]]

\* all_points = [point for shape in city_shapes for point in shape.points]
AllPoints(shapes) == Flatten([k \in 1..Len(shapes) |-> shapes[k].points])

\* (min_x, min_y, max_x, max_y) over a non-empty point list
BBoxOf(all_points) ==
    LET xs == {all_points[k][1] : k \in 1..Len(all_points)}
        ys == {all_points[k][2] : k \in 1..Len(all_points)}
    IN  <<SetMin(xs), SetMin(ys), SetMax(xs), SetMax(ys)>>

\* variant: the "if not city_shapes: raise" test left out
ExtractCityBoundariesNoEmptyTest(sf, city_name, city_field_name) ==
    LET name_pos == FirstPos(sf.fields, city_field_name)
    IN  IF name_pos = 0
        THEN [exc |-> FieldIndexError, city_shapes |-> <<>>, bbox |-> <<>>]
        ELSE LET shapes == CityShapes(sf, name_pos, city_name)
             IN  IF AllPoints(shapes) = <<>>
                 THEN [exc |-> MinEmptyError, city_shapes |-> <<>>, bbox |-> <<>>]
                 ELSE [exc |-> NoExc, city_shapes |-> shapes,
                       bbox |-> BBoxOf(AllPoints(shapes))]

\* Outcome of _extract_city_boundaries: the exception raised, or NoExc with the
\* returned (city_shapes, bbox).
ExtractCityBoundariesResult(sf, city_name, city_field_name) ==
    LET name_pos == FirstPos(sf.fields, city_field_name)
    IN  IF name_pos = 0
        THEN [exc |-> FieldIndexError, city_shapes |-> <<>>, bbox |-> <<>>]
        ELSE LET shapes == CityShapes(sf, name_pos, city_name)
             IN  IF shapes = <<>>
                 THEN [exc |-> CityNotFoundError, city_shapes |-> <<>>, bbox |-> <<>>]
                 ELSE IF AllPoints(shapes) = <<>>
                      THEN [exc |-> MinEmptyError, city_shapes |-> <<>>, bbox |-> <<>>]
                      ELSE [exc |-> NoExc, city_shapes |-> shapes,
                            bbox |-> BBoxOf(AllPoints(shapes))]

----------------------------------------------------------------------------
(* _generate_bbbike_url *)

DigitChars == <<"0", "1", "2", "3", "4", "5", "6", "7", "8", "9">>

RECURSIVE NatStr(_)
NatStr(n) == IF n < 10 THEN <<DigitChars[n + 1]>>
             ELSE NatStr(n \div 10) \o <<DigitChars[(n % 10) + 1]>>

\* variant: the sign is lost
FloatStrUnsigned(v) ==
    LET a == IF v < 0 THEN -v ELSE v
    IN  NatStr(a \div 10) \o <<".">> \o <<DigitChars[(a % 10) + 1]>>

\* str() of a float with one fractional digit, as the f-string formats it
FloatStr(v) ==
    LET a == IF v < 0 THEN -v ELSE v
    IN  (IF v < 0 THEN <<"-">> ELSE <<>>)
        \o NatStr(a \div 10) \o <<".">> \o <<DigitChars[(a % 10) + 1]>>

UrlBase == <<"h","t","t","p",":","/","/","e","x","t","r","a","c","t",".",
             "b","b","b","i","k","e",".","o","r","g","/","?">>
SwLng == <<"s","w","_","l","n","g">>
SwLat == <<"s","w","_","l","a","t">>
NeLng == <<"n","e","_","l","n","g">>
NeLat == <<"n","e","_","l","a","t">>

GenerateBBBikeUrl(b) ==
    UrlBase \o SwLng \o <<"=">> \o FloatStr(b[1])
      \o <<"&">> \o SwLat \o <<"=">> \o FloatStr(b[2])
      \o <<"&">> \o NeLng \o <<"=">> \o FloatStr(b[3])
      \o <<"&">> \o NeLat \o <<"=">> \o FloatStr(b[4])

----------------------------------------------------------------------------
(* _plot_city_boundaries / _plot_city_roads *)

\* variant: plotting tolerates a shape without points
PlotNeverRaises(shapes) == FALSE

\* x, y = zip(*shape.points) cannot unpack when a shape has no points
PlotRaises(shapes) == \E k \in 1..Len(shapes) : shapes[k].points = <<>>

----------------------------------------------------------------------------
(* _extract_road_data *)

RoadTypeCandidates == <<"type", "highway", "road_type", "roadtype", "class">>

\* variant: the schema is scanned for a candidate, the first field that is one wins
FirstCandidateInSchemaOrder(fields) ==
    IF \E f \in 1..Len(fields) : fields[f] \in Range(RoadTypeCandidates)
    THEN LET f == CHOOSE g \in 1..Len(fields) :
                     /\ fields[g] \in Range(RoadTypeCandidates)
                     /\ \A h \in 1..(g - 1) : fields[h] \notin Range(RoadTypeCandidates)
         IN  CHOOSE c \in 1..Len(RoadTypeCandidates) : RoadTypeCandidates[c] = fields[f]
    ELSE 0

\* position in RoadTypeCandidates of the first candidate present in fields, 0 if none
FirstCandidate(fields) ==
    IF \E c \in 1..Len(RoadTypeCandidates) : RoadTypeCandidates[c] \in Range(fields)
    THEN CHOOSE c \in 1..Len(RoadTypeCandidates) :
            /\ RoadTypeCandidates[c] \in Range(fields)
            /\ \A d \in 1..(c - 1) : RoadTypeCandidates[d] \notin Range(fields)
    ELSE 0

\* Outcome of the field resolution: exception, Python index, warning printed
ResolveRoadTypeField(fields) ==
    LET c == FirstCandidate(fields)
    IN  IF c # 0
        THEN [exc |-> NoExc, warned |-> FALSE,
              index |-> FirstPos(fields, RoadTypeCandidates[c]) - 1]
        ELSE IF fields = <<>>
             THEN [exc |-> ListIndexError, warned |-> TRUE, index |-> -1]
             ELSE [exc |-> NoExc, warned |-> TRUE,
                   index |-> FirstPos(fields, fields[1]) - 1]

\* variant: the polyline test of the table loop applied to the render list too
SelectedRoadsPolylinesOnly(sf, index, road_types) ==
    LET matched == SelectSeq(Zip(sf.records, sf.shapes),
                             LAMBDA p : /\ p[1][index + 1] \in Range(road_types)
                                        /\ p[2].shapeType = 3)
    IN  [k \in 1..Len(matched) |-> matched[k][2]]

\* selected_roads
SelectedRoads(sf, index, road_types) ==
    LET matched == SelectSeq(Zip(sf.records, sf.shapes),
                             LAMBDA p : p[1][index + 1] \in Range(road_types))
    IN  [k \in 1..Len(matched) |-> matched[k][2]]

\* variant: the end pair read from points[0] as well
RoadRowEndAtStart(record, shape) ==
    LET first == shape.points[1]
    IN  record \o <<first[1], first[2], first[1], first[2]>>

\* list(record) + [start_lat, start_long, end_lat, end_long]
RoadRow(record, shape) ==
    LET first == shape.points[1]
        last == shape.points[Len(shape.points)]
    IN  record \o <<first[1], first[2], last[1], last[2]>>

\* road_data
RoadData(sf, index, road_types) ==
    LET eligible == SelectSeq(Zip(sf.records, sf.shapes),
                              LAMBDA p : /\ p[1][index + 1] \in Range(road_types)
                                         /\ p[2].shapeType = 3
                                         /\ p[2].points # <<>>)
    IN  [k \in 1..Len(eligible) |-> RoadRow(eligible[k][1], eligible[k][2])]

RoadColumns(fields) == fields \o <<"start_lat", "start_long", "end_lat", "end_long">>

----------------------------------------------------------------------------
(* Inputs *)

Shapefile(fields, records, shapes) ==
    [exists |-> TRUE, fields |-> fields, records |-> records, shapes |-> shapes]

NoFile == [exists |-> FALSE, fields |-> <<>>, records |-> <<>>, shapes |-> <<>>]

\* every shapefile with the given schema and at most n features, with records
\* from records and shapes from shapes
Shapefiles(fields, records, shapes, n) ==
    UNION {{Shapefile(fields, rs, ss) : rs \in [1..k -> records], ss \in [1..k -> shapes]} :
           k \in 0..n}

\* every record of the given width over the given values
Records(width, values) == [1..width -> values]

\* polygons of the boundary shapefile: the first k <= n vertices of a ring
BoundaryShapes(n) ==
    {[shapeType |-> 5, points |-> SubSeq(ring, 1, k)] :
        ring \in BoundaryRings, k \in 0..(IF n < 4 THEN n ELSE 4)}

\* the first k vertices of one road
RoadLine(k) == [j \in 1..k |-> <<726 + j, 187 + (2 * j)>>]

\* polylines (3) and polygons (5) of the road shapefile
RoadShapes(n) ==
    {[shapeType |-> t, points |-> RoadLine(k)] : t \in {3, 5}, k \in 0..n}

DefaultArgs ==
    [base_shapefile |-> <<"gadm41", "IND", "2.shp">>, cities |-> <<"A">>,
     city_field |-> "NAME_2", road_types |-> <<"residential", "primary">>,
     roads_shapefile |-> "None"]

----------------------------------------------------------------------------
(* process_city, one action per step *)

Raise(e) == /\ exc' = e
            /\ pc' = "raised"

City == args.cities[i]

\* step 1: city_shapes, bbox = self._extract_city_boundaries(...)
ExtractCityBoundaries ==
    /\ pc = "extract"
    /\ LET r == ExtractCityBoundariesResult(baseFile, City, args.city_field)
       IN  IF r.exc # NoExc
           THEN /\ Raise(r.exc)
                /\ UNCHANGED <<city_shapes, bbox, trace>>
           ELSE /\ city_shapes' = r.city_shapes
                /\ bbox' = r.bbox
                /\ trace' = Append(trace, "boundaries")
                /\ pc' = "url"
                /\ UNCHANGED exc
    /\ UNCHANGED <<args, baseFile, roadFile, i, mainPc, bbbike_url, road_shapes, road_df,
                   road_type_index, warned, attempted, written, results, reported>>

\* step 2: bbbike_url = self._generate_bbbike_url(bbox)
GenerateUrl ==
    /\ pc = "url"
    /\ bbbike_url' = GenerateBBBikeUrl(bbox)
    /\ trace' = Append(trace, "url")
    /\ pc' = "plot_boundaries"
    /\ UNCHANGED <<args, baseFile, roadFile, i, mainPc, city_shapes, bbox, road_shapes,
                   road_df, road_type_index, warned, exc, attempted, written, results,
                   reported>>

\* step 3: self._plot_city_boundaries(city_name, city_shapes)
PlotCityBoundaries ==
    /\ pc = "plot_boundaries"
    /\ IF PlotRaises(city_shapes)
       THEN /\ Raise(UnpackError)
            /\ UNCHANGED <<written, trace>>
       ELSE /\ written' = written \cup {<<City, "boundaries.png">>}
            /\ trace' = Append(trace, "plot_boundaries")
            /\ pc' = "locate_roads"
            /\ UNCHANGED exc
    /\ UNCHANGED <<args, baseFile, roadFile, i, mainPc, city_shapes, bbox, bbbike_url,
                   road_shapes, road_df, road_type_index, warned, attempted, results,
                   reported>>

\* step 4, lines 51-58 and 66-67: infer the road shapefile path when none was
\* given (country_code is the second '_'-separated part of the base file
\* name), then test whether the file exists
LocateRoads ==
    /\ pc = "locate_roads"
    /\ IF args.roads_shapefile = "None" /\ Len(args.base_shapefile) < 2
       THEN Raise(ListIndexError)
       ELSE /\ pc' = IF roadFile.exists THEN "extract_roads" ELSE "return"
            /\ UNCHANGED exc
    /\ UNCHANGED <<args, baseFile, roadFile, i, mainPc, city_shapes, bbox, bbbike_url,
                   road_shapes, road_df, road_type_index, warned, attempted, trace,
                   written, results, reported>>

\* road_shapes, road_df = self._extract_road_data(...)
ExtractRoadData ==
    /\ pc = "extract_roads"
    /\ LET r == ResolveRoadTypeField(roadFile.fields)
       IN  /\ warned' = r.warned
           /\ road_type_index' = r.index
           /\ IF r.exc # NoExc
              THEN /\ Raise(r.exc)
                   /\ UNCHANGED <<road_shapes, road_df, trace>>
              ELSE /\ road_shapes' = SelectedRoads(roadFile, r.index, args.road_types)
                   /\ road_df' = [columns |-> RoadColumns(roadFile.fields),
                                  rows |-> RoadData(roadFile, r.index, args.road_types)]
                   /\ trace' = Append(trace, "road_data")
                   /\ pc' = "plot_roads"
                   /\ UNCHANGED exc
    /\ UNCHANGED <<args, baseFile, roadFile, i, mainPc, city_shapes, bbox, bbbike_url,
                   attempted, written, results, reported>>

\* self._plot_city_roads(city_name, road_shapes)
PlotCityRoads ==
    /\ pc = "plot_roads"
    /\ IF PlotRaises(road_shapes)
       THEN /\ Raise(UnpackError)
            /\ UNCHANGED <<written, trace>>
       ELSE /\ written' = written \cup {<<City, "roads.png">>}
            /\ trace' = Append(trace, "plot_roads")
            /\ pc' = "to_csv"
            /\ UNCHANGED exc
    /\ UNCHANGED <<args, baseFile, roadFile, i, mainPc, city_shapes, bbox, bbbike_url,
                   road_shapes, road_df, road_type_index, warned, attempted, results,
                   reported>>

\* step 5: road_df.to_csv(output_csv, index=False)
SaveRoadCsv ==
    /\ pc = "to_csv"
    /\ written' = written \cup {<<City, "roads.csv">>}
    /\ trace' = Append(trace, "csv")
    /\ pc' = "return"
    /\ UNCHANGED <<args, baseFile, roadFile, i, mainPc, city_shapes, bbox, bbbike_url,
                   road_shapes, road_df, road_type_index, warned, exc, attempted, results,
                   reported>>

\* return {"city_name": ..., "bbox": ..., "bbbike_url": ...}; main's loop moves on
ReturnResult ==
    /\ pc = "return"
    /\ results' = Append(results, [city_name |-> City, bbox |-> bbox,
                                   bbbike_url |-> bbbike_url])
    /\ trace' = Append(trace, "result")
    /\ pc' = "idle"
    /\ mainPc' = "loop"
    /\ i' = i + 1
    /\ UNCHANGED <<args, baseFile, roadFile, city_shapes, bbox, bbbike_url, road_shapes,
                   road_df, road_type_index, warned, exc, attempted, written, reported>>

----------------------------------------------------------------------------
(* main *)

\* for city_name in args.cities: try: pipeline.process_city(...)
StartCity ==
    /\ mainPc = "loop"
    /\ i <= Len(args.cities)
    /\ mainPc' = "call"
    /\ pc' = "extract"
    /\ attempted' = Append(attempted, City)
    /\ trace' = <<>>
    /\ city_shapes' = <<>>
    /\ bbox' = <<>>
    /\ bbbike_url' = <<>>
    /\ road_shapes' = <<>>
    /\ road_df' = [columns |-> <<>>, rows |-> <<>>]
    /\ road_type_index' = -1
    /\ warned' = FALSE
    /\ exc' = NoExc
    /\ UNCHANGED <<args, baseFile, roadFile, i, written, results, reported>>

\* variant: the exception is reported outside the loop and ends the batch
CatchExceptionEndsBatch ==
    /\ pc = "raised"
    /\ reported' = Append(reported, <<City, exc>>)
    /\ pc' = "idle"
    /\ mainPc' = "done"
    /\ UNCHANGED <<args, baseFile, roadFile, i, city_shapes, bbox, bbbike_url, road_shapes,
                   road_df, road_type_index, warned, exc, attempted, trace, written,
                   results>>

\* except Exception as e: print(f"Error processing {city_name}: {e}")
CatchException ==
    /\ pc = "raised"
    /\ reported' = Append(reported, <<City, exc>>)
    /\ pc' = "idle"
    /\ mainPc' = "loop"
    /\ i' = i + 1
    /\ UNCHANGED <<args, baseFile, roadFile, city_shapes, bbox, bbbike_url, road_shapes,
                   road_df, road_type_index, warned, exc, attempted, trace, written,
                   results>>

\* print("All cities processed. Output saved to:", args.output_dir)
FinalReport ==
    /\ mainPc = "loop"
    /\ i > Len(args.cities)
    /\ mainPc' = "done"
    /\ UNCHANGED <<args, baseFile, roadFile, i, pc, city_shapes, bbox, bbbike_url,
                   road_shapes, road_df, road_type_index, warned, exc, attempted, trace,
                   written, results, reported>>

----------------------------------------------------------------------------
(* The batch: main over every command line and file content within the bounds *)

\* The batch draws its files from small fixed families (boundary features with
\* no point or one point, a road file of at most one feature): the claims
\* checked on it are about the order and the outcome of the steps.
BatchBoundaryShapes ==
    {[shapeType |-> 5, points |-> <<>>], [shapeType |-> 5, points |-> <<<<727, 188>>>>]}

BatchBaseFiles ==
    Shapefiles(<<"NAME_2">>, Records(1, CityNames), BatchBoundaryShapes, 2)
      \cup Shapefiles(<<"NAME_1">>, Records(1, {"S"}), BatchBoundaryShapes, 1)

BatchRoadFiles ==
    {NoFile}
      \cup Shapefiles(<<"highway">>, Records(1, RoadValues), RoadShapes(1), 1)
      \cup Shapefiles(<<>>, Records(0, RoadValues), RoadShapes(0), 1)

Init ==
    /\ args \in [base_shapefile : {<<"cities.shp">>, <<"gadm41", "IND", "2.shp">>},
                  cities : SeqsUpTo(CityNames, MaxCities) \ {<<>>},
                  city_field : {"NAME_2"},
                  road_types : {<<"residential", "primary">>},
                  roads_shapefile : {"None", "roads.shp"}]
    /\ baseFile \in BatchBaseFiles
    /\ roadFile \in BatchRoadFiles
    /\ i = 1
    /\ mainPc = "loop"
    /\ pc = "idle"
    /\ city_shapes = <<>>
    /\ bbox = <<>>
    /\ bbbike_url = <<>>
    /\ road_shapes = <<>>
    /\ road_df = [columns |-> <<>>, rows |-> <<>>]
    /\ road_type_index = -1
    /\ warned = FALSE
    /\ exc = NoExc
    /\ attempted = <<>>
    /\ trace = <<>>
    /\ written = {}
    /\ results = <<>>
    /\ reported = <<>>

Next ==
    \/ StartCity
    \/ ExtractCityBoundaries
    \/ GenerateUrl
    \/ PlotCityBoundaries
    \/ LocateRoads
    \/ ExtractRoadData
    \/ PlotCityRoads
    \/ SaveRoadCsv
    \/ ReturnResult
    \/ CatchException
    \/ FinalReport

Spec == Init /\ [][Next]_vars

\* main runs to completion: no step waits on anything
FairSpec == Spec /\ WF_vars(Next)

----------------------------------------------------------------------------
(* _extract_city_boundaries alone, over every boundary shapefile in the bounds *)

\* a process_city call in progress with nothing done yet
Called(a, base, road, box) ==
    /\ args = a
    /\ baseFile = base
    /\ roadFile = road
    /\ i = 1
    /\ mainPc = "call"
    /\ city_shapes = <<>>
    /\ bbox = box
    /\ bbbike_url = <<>>
    /\ road_shapes = <<>>
    /\ road_df = [columns |-> <<>>, rows |-> <<>>]
    /\ road_type_index = -1
    /\ warned = FALSE
    /\ exc = NoExc
    /\ attempted = <<a.cities[1]>>
    /\ trace = <<>>
    /\ written = {}
    /\ results = <<>>
    /\ reported = <<>>

InitBoundary ==
    /\ pc = "extract"
    /\ \E n \in 0..MaxShapes :
       \E records \in [1..n -> Records(2, CityNames)] :
       \E shapes \in [1..n -> BoundaryShapes(MaxPoints)] :
          Called(DefaultArgs, Shapefile(<<"NAME_1", "NAME_2">>, records, shapes),
                 NoFile, <<>>)

SpecBoundary == InitBoundary /\ [][ExtractCityBoundaries]_vars

(* _extract_road_data alone, over every road shapefile in the bounds *)

RoadSchemas == {<<"class", "type">>, <<"highway">>, <<"name">>, <<>>}

InitRoad ==
    /\ pc = "extract_roads"
    /\ \E fields \in RoadSchemas :
       \E n \in 0..MaxRoads :
       \E records \in [1..n -> Records(Len(fields), RoadValues)] :
       \E shapes \in [1..n -> RoadShapes(MaxRoadPoints)] :
       \E types \in {<<"residential", "primary">>, <<"footway", "primary">>} :
          Called([DefaultArgs EXCEPT !.road_types = types],
                 Shapefile(<<"NAME_2">>, <<>>, <<>>),
                 Shapefile(fields, records, shapes), <<>>)

SpecRoad == InitRoad /\ [][ExtractRoadData]_vars

(* _generate_bbbike_url alone, over every 4-tuple of coordinates *)

InitUrl ==
    /\ pc = "url"
    /\ \E box \in [1..4 -> Coords] :
          Called(DefaultArgs, Shapefile(<<"NAME_2">>, <<>>, <<>>), NoFile, box)

SpecUrl == InitUrl /\ [][GenerateUrl]_vars

----------------------------------------------------------------------------
(* Properties of _extract_city_boundaries *)

\* the call of _extract_city_boundaries has returned (it is the first step of trace)
BoundariesReturned == Len(trace) >= 1

\* features of the boundary shapefile whose city field equals the target city
SelectedFeatures ==
    {k \in 1..Len(baseFile.records) :
        \E f \in 1..Len(baseFile.fields) :
            /\ baseFile.fields[f] = args.city_field
            /\ baseFile.records[k][f] = args.cities[i]}

PointsOf(features) ==
    UNION {Range(baseFile.shapes[k].points) : k \in features}

\* C1: whenever _extract_city_boundaries returns, the bbox bounds every point
\* of every selected geometry and each of its four extrema is the coordinate
\* of some point of a selected geometry (so no other geometry influences it).
C1_BBoxTight ==
    BoundariesReturned =>
        LET P == PointsOf(SelectedFeatures)
        IN  /\ Len(bbox) = 4
            /\ \A q \in P : /\ bbox[1] <= q[1] /\ q[1] <= bbox[3]
                             /\ bbox[2] <= q[2] /\ q[2] <= bbox[4]
            /\ \E q \in P : q[1] = bbox[1]
            /\ \E q \in P : q[2] = bbox[2]
            /\ \E q \in P : q[1] = bbox[3]
            /\ \E q \in P : q[2] = bbox[4]

\* a bbox was returned although some non-selected geometry has a point outside it
C1_Witness ==
    /\ BoundariesReturned
    /\ bbox[1] < bbox[3]
    /\ \E q \in PointsOf((1..Len(baseFile.records)) \ SelectedFeatures) :
          q[1] < bbox[1] \/ q[1] > bbox[3] \/ q[2] < bbox[2] \/ q[2] > bbox[4]

\* C7: when the selection is non-empty but holds no point, the extraction
\* fails, returns no bbox, and the error is of a kind of its own, not the kind
\* raised for an empty selection.
C7_DedicatedEmptyGeometryError ==
    (pc # "extract" /\ SelectedFeatures # {} /\ PointsOf(SelectedFeatures) = {}) =>
        /\ exc # NoExc
        /\ bbox = <<>>
        /\ exc.type # CityNotFoundError.type

----------------------------------------------------------------------------
(* Properties of process_city and main *)

\* the city field is in the schema and no record holds city c in it
NoRecordOf(c) ==
    /\ \E f \in 1..Len(baseFile.fields) : baseFile.fields[f] = args.city_field
    /\ \A k \in 1..Len(baseFile.records) :
          \A f \in 1..Len(baseFile.fields) :
             baseFile.fields[f] = args.city_field => baseFile.records[k][f] # c

\* C2: for a city that no record names in the (existing) city field, the run
\* ends in the region-not-found error before any bbox exists, and the city gets
\* no bbox, no URL, no boundary image and no result record.
C2_RegionNotFound ==
    \A c \in CityNames :
        NoRecordOf(c) =>
            /\ \A f \in written : f[1] # c
            /\ \A r \in 1..Len(results) : results[r].city_name # c
            /\ \A e \in 1..Len(reported) :
                  reported[e][1] = c => reported[e][2] = CityNotFoundError
            /\ (mainPc = "call" /\ args.cities[i] = c) =>
                  /\ bbox = <<>>
                  /\ bbbike_url = <<>>
                  /\ trace = <<>>
                  /\ pc \in {"extract", "raised"}
                  /\ pc = "raised" => exc = CityNotFoundError

\* a city missing from a shapefile that holds another city was reported
C2_Witness ==
    \E e \in 1..Len(reported) :
        /\ NoRecordOf(reported[e][1])
        /\ baseFile.records # <<>>
        /\ reported[e][2] = CityNotFoundError

IsPrefix(s, t) == Len(s) <= Len(t) /\ \A k \in 1..Len(s) : s[k] = t[k]

\* C3: process_city is called for the cities in list order, each entry once,
\* whatever failed before, and the batch reaches its final report.
C3_BatchCompletes ==
    /\ [](IsPrefix(attempted, args.cities))
    /\ [](mainPc = "done" => attempted = args.cities)
    /\ [](mainPc = "done" => Len(results) + Len(reported) = Len(args.cities))
    /\ <>(mainPc = "done")

\* the batch finished although its first city failed, and a later city succeeded
C3_Witness ==
    /\ mainPc = "done"
    /\ Len(reported) >= 1
    /\ Len(results) >= 1
    /\ reported[1][1] = args.cities[1]
    /\ results[1].city_name = args.cities[2]

\* C4: once boundary extraction has succeeded, a missing road shapefile never
\* makes process_city fail, with the path given or inferred.
C4_RoadAbsenceNeverFails ==
    (mainPc = "call" /\ BoundariesReturned /\ ~roadFile.exists) => pc # "raised"

StepOrder == <<"boundaries", "url", "plot_boundaries", "road_data", "plot_roads",
               "csv", "result">>

Rank(step) == CHOOSE r \in 1..Len(StepOrder) : StepOrder[r] = step

Done(step) == \E k \in 1..Len(trace) : trace[k] = step

\* C10: the steps of one run are completed in the fixed order, each one only
\* after the steps before it (the three road steps together or not at all);
\* the CSV is written only after a road render that drew every selected
\* shape; the result record needs every earlier step to have succeeded; after
\* a failure the run completes no further step.
C10_StepOrder ==
    /\ [](/\ \A a, b \in 1..Len(trace) : a < b => Rank(trace[a]) < Rank(trace[b])
          /\ Done("url") => Done("boundaries")
          /\ Done("plot_boundaries") => Done("url")
          /\ Done("road_data") => Done("plot_boundaries")
          /\ Done("plot_roads") => Done("road_data")
          /\ Done("csv") => Done("plot_roads")
          /\ Done("csv") => \A k \in 1..Len(road_shapes) : road_shapes[k].points # <<>>
          /\ Done("result") => Done("plot_boundaries") /\ exc = NoExc
          /\ Done("result") /\ Done("road_data") => Done("csv")
          /\ pc = "raised" => exc # NoExc /\ ~Done("result"))
    /\ [][exc # NoExc => (trace' = trace \/ trace' = <<>>)]_vars

\* a run that failed in the road render: boundary image written, no CSV, no result
C10_Witness ==
    /\ pc = "raised"
    /\ Len(attempted) = 1
    /\ trace = <<"boundaries", "url", "plot_boundaries", "road_data">>
    /\ \E k \in 1..Len(road_shapes) : road_shapes[k].points = <<>>
    /\ <<args.cities[1], "boundaries.png">> \in written
    /\ <<args.cities[1], "roads.csv">> \notin written
    /\ results = <<>>

----------------------------------------------------------------------------
(* Properties of _extract_road_data *)

\* the call of _extract_road_data has ended / has returned
RoadDataEnded == pc \in {"plot_roads", "raised"}
RoadDataReturned == pc = "plot_roads"

CandidateNames == <<"type", "highway", "road_type", "roadtype", "class">>

\* the resolution the claim describes, for the schema of the road shapefile
ResolvedAsClaimed ==
    LET fields == roadFile.fields
        present == {c \in 1..Len(CandidateNames) :
                       \E f \in 1..Len(fields) : fields[f] = CandidateNames[c]}
    IN  /\ exc = NoExc
        /\ IF present # {}
           THEN \E c \in present :
                   /\ \A d \in present : c <= d
                   /\ road_type_index + 1 \in 1..Len(fields)
                   /\ fields[road_type_index + 1] = CandidateNames[c]
                   /\ ~warned
           ELSE road_type_index = 0 /\ warned

\* C5 as stated: for every schema the field resolves to the first candidate
\* in candidate-list order, or to index 0 with a warning, and never fails.
C5_ResolvesEverySchema == RoadDataEnded => ResolvedAsClaimed

\* C5 amended: the same for every schema that has at least one field.
C5_ResolvesNonEmptySchema ==
    (RoadDataEnded /\ roadFile.fields # <<>>) => ResolvedAsClaimed

\* "type" resolved although "class", also a candidate, comes first in the schema
C5_Witness ==
    /\ RoadDataEnded
    /\ roadFile.fields = <<"class", "type">>
    /\ road_type_index = 1
    /\ roadFile.records # <<>>

\* features whose value in the resolved field is an allowed type
TypeMatched ==
    {k \in 1..Len(roadFile.records) :
        \E t \in 1..Len(args.road_types) :
            roadFile.records[k][road_type_index + 1] = args.road_types[t]}

\* type-matched features that are non-empty polylines
RowEligible ==
    {k \in TypeMatched : /\ roadFile.shapes[k].shapeType = 3
                         /\ Len(roadFile.shapes[k].points) > 0}

\* the j-th smallest element of a set of feature numbers
Nth(S, j) == CHOOSE k \in S : Cardinality({m \in S : m <= k}) = j

C9_RowContent ==
    RoadDataReturned =>
        /\ road_df.columns
              = roadFile.fields \o <<"start_lat", "start_long", "end_lat", "end_long">>
        /\ \A j \in 1..Len(road_df.rows) :
              LET k == Nth(RowEligible, j)
                  pts == roadFile.shapes[k].points
                  n == Len(roadFile.fields)
                  row == road_df.rows[j]
              IN  /\ Len(row) = n + 4
                  /\ SubSeq(row, 1, n) = roadFile.records[k]
                  /\ row[n + 1] = pts[1][1]
                  /\ row[n + 2] = pts[1][2]
                  /\ row[n + 3] = pts[Len(pts)][1]
                  /\ row[n + 4] = pts[Len(pts)][2]
                  /\ Len(pts) = 1 => row[n + 3] = row[n + 1] /\ row[n + 4] = row[n + 2]

\* a table with a row from a one-point polyline and a row from a longer one
C9_Witness ==
    /\ RoadDataReturned
    /\ Len(road_df.rows) = 2
    /\ roadFile.fields = <<"class", "type">>
    /\ \E j \in 1..2 : Len(roadFile.shapes[j].points) = 1
    /\ \E j \in 1..2 : /\ Len(roadFile.shapes[j].points) = 2
                        /\ road_df.rows[j][3] # road_df.rows[j][5]

----------------------------------------------------------------------------
(* Properties of _generate_bbbike_url *)

\* position of the first occurrence of character c in s, 0 when absent
Find(s, c) ==
    IF \E k \in 1..Len(s) : s[k] = c
    THEN CHOOSE k \in 1..Len(s) : s[k] = c /\ \A j \in 1..(k - 1) : s[j] # c
    ELSE 0

\* the pieces of s between occurrences of the separator
RECURSIVE Split(_, _)
Split(s, sep) ==
    IF Find(s, sep) = 0 THEN <<s>>
    ELSE <<SubSeq(s, 1, Find(s, sep) - 1)>>
            \o Split(SubSeq(s, Find(s, sep) + 1, Len(s)), sep)

\* the query parameters of a URL, in order, as <<name, value>> pairs
QueryParams(url) ==
    LET query == SubSeq(url, Find(url, "?") + 1, Len(url))
        parts == Split(query, "&")
    IN  [k \in 1..Len(parts) |->
            <<SubSeq(parts[k], 1, Find(parts[k], "=") - 1),
              SubSeq(parts[k], Find(parts[k], "=") + 1, Len(parts[k]))>>]

DigitValue(c) == CHOOSE d \in 0..9 : DigitChars[d + 1] = c

RECURSIVE NatValue(_)
NatValue(ds) ==
    IF ds = <<>> THEN 0
    ELSE (10 * NatValue(SubSeq(ds, 1, Len(ds) - 1))) + DigitValue(ds[Len(ds)])

\* the number a decimal literal with one fractional digit denotes, in tenths;
\* any other text denotes no number (-1000000)
DecimalValue(text) ==
    LET neg == text # <<>> /\ text[1] = "-"
        body == IF neg THEN Tail(text) ELSE text
        dot == Find(body, ".")
    IN  IF /\ dot >= 2
           /\ Len(body) = dot + 1
           /\ \A k \in 1..Len(body) : k # dot => body[k] \in Range(DigitChars)
        THEN LET a == (10 * NatValue(SubSeq(body, 1, dot - 1))) + DigitValue(body[dot + 1])
             IN  IF neg THEN -a ELSE a
        ELSE -1000000

UrlGenerated == Len(trace) >= 1 /\ trace[Len(trace)] = "url"

\* C8: the URL carries exactly the parameters sw_lng, sw_lat, ne_lng, ne_lat in
\* that order, their values read back as min_x, min_y, max_x, max_y, and no
\* other bbox yields the same URL.
C8_UrlRoundTrip ==
    UrlGenerated =>
        LET params == QueryParams(bbbike_url)
        IN  /\ [k \in 1..Len(params) |-> params[k][1]] = <<SwLng, SwLat, NeLng, NeLat>>
            /\ [k \in 1..Len(params) |-> DecimalValue(params[k][2])] = bbox
            /\ \A other \in [1..4 -> Coords] :
                  GenerateBBBikeUrl(other) = bbbike_url => other = bbox

\* a URL for a bbox with a negative, a zero and a four-digit coordinate
C8_Witness ==
    /\ UrlGenerated
    /\ bbox = <<-1805, -7, 0, 727>>
    /\ bbbike_url = UrlBase \o
          <<
              "s", "w", "_", "l", "n", "g", "=", "-", "1", "8", "0",
              ".", "5", "&", "s", "w", "_", "l", "a", "t", "=", "-",
              "0", ".", "7", "&", "n", "e", "_", "l", "n", "g", "=",
              "0", ".", "0", "&", "n", "e", "_", "l", "a", "t", "=",
              "7", "2", ".", "7"
          >>

====
